---- MODULE Spec2Model ----
(***************************************************************************)
(* Customer schemas (application/blueprints/customer/customerSchemas.py):  *)
(* the load pipeline of CustomerSchema (pre_load process_input, field      *)
(* deserialization and validation, the post_load hooks hash_password and   *)
(* make_instance), the dump projections of the four CustomerSchema         *)
(* instances, and LoginSchema.                                             *)
(*                                                                         *)
(* Strings are sequences of one-character strings.  A Python value is a    *)
(* tagged record: Str(s), Num(n) or None.  A dict is a function from a set *)
(* of keys to values.                                                      *)
(***************************************************************************)
EXTENDS Integers, Sequences, FiniteSets, TLC

VARIABLES pc, schema, request, sent, data, errors, hooks_run, out

vars == <<pc, schema, request, sent, data, errors, hooks_run, out>>

(***************************************************************************)
(* Bounds of the model.                                                    *)
(***************************************************************************)
\* most whitespace characters put on each side of an input string
MaxPad == 1
\* most service tickets attached to a stored customer
MaxTickets == 1
\* number of distinct salts bcrypt.gensalt() may return
NumSalts == 2

(***************************************************************************)
(* Limits of the field declarations.                                       *)
(***************************************************************************)
FirstNameMin == 1
FirstNameMax == 50
LastNameMin == 1
LastNameMax == 50
PasswordMin == 6
PhoneMax == 20
AddressMax == 200
LoginPasswordMin == 6

(***************************************************************************)
(* Python values.                                                          *)
(***************************************************************************)
None == [kind |-> "none"]
Str(s) == [kind |-> "str", chars |-> s]
Num(n) == [kind |-> "int", num |-> n]
DateTime(t) == [kind |-> "datetime", t |-> t]

isinstance_str(v) == v.kind = "str"

\* Python truthiness of a value: None, "" and 0 are falsy
truthy(v) ==
    CASE v.kind = "none" -> FALSE
      [] v.kind = "str" -> v.chars # <<>>
      [] v.kind = "int" -> v.num # 0
      [] OTHER -> TRUE

EmptyDict == [k \in {} |-> None]

Rep(c, n) == [i \in 1..n |-> c]

(***************************************************************************)
(* str.strip(): removes leading and trailing whitespace.                   *)
(***************************************************************************)
IsSpace(c) == c \in {" ", "\t", "\n"}

RECURSIVE lstrip(_)
lstrip(s) == IF s # <<>> /\ IsSpace(Head(s)) THEN lstrip(Tail(s)) ELSE s

RECURSIVE rstrip(_)
rstrip(s) ==
    IF s # <<>> /\ IsSpace(s[Len(s)]) THEN rstrip(SubSeq(s, 1, Len(s) - 1)) ELSE s

\* faulty variant: strips leading whitespace only
strip_left_only(s) == lstrip(s)

strip(s) == rstrip(lstrip(s))

startswith(s, p) == Len(s) >= Len(p) /\ SubSeq(s, 1, Len(p)) = p

(***************************************************************************)
(* pre_load hook: strips every string value except the password, writing   *)
(* the result back into the dict it was handed (data[key] = ...).          *)
(***************************************************************************)
\* faulty variant: the password is stripped like every other string
process_input_strips_password(d) ==
    [k \in DOMAIN d |-> IF isinstance_str(d[k]) THEN Str(strip(d[k].chars)) ELSE d[k]]

process_input(d) ==
    [k \in DOMAIN d |->
        IF isinstance_str(d[k]) /\ k # "password"
        THEN Str(strip(d[k].chars))
        ELSE d[k]]

(***************************************************************************)
(* marshmallow validate.Email, as used by fields.Email: the value holds an *)
(* "@"; the part before the last "@" is dot-separated atoms of user        *)
(* characters; the part after it is "localhost" or dot-separated labels    *)
(* ending in a top-level label of two or more characters.                  *)
(***************************************************************************)
Letters == {"a", "b", "c", "d", "e", "f", "i", "l", "m", "n", "o", "A", "L"}
Digits == {"0", "1", "2", "3", "4", "5", "6", "7", "8", "9"}
UserChars == Letters \cup Digits \cup {"-", "$", "_", "+"}
DomainChars == Letters \cup Digits \cup {"-"}
AlphaNum == Letters \cup Digits

Contains(s, c) == \E i \in 1..Len(s) : s[i] = c

LastIndex(s, c) == CHOOSE i \in 1..Len(s) : s[i] = c /\ \A j \in (i + 1)..Len(s) : s[j] # c

\* the pieces of s between the occurrences of c
RECURSIVE Split(_, _)
Split(s, c) ==
    IF ~Contains(s, c) THEN <<s>>
    ELSE LET i == LastIndex(s, c)
         IN  Append(Split(SubSeq(s, 1, i - 1), c), SubSeq(s, i + 1, Len(s)))

AllIn(s, cs) == \A i \in 1..Len(s) : s[i] \in cs

UserPartOk(u) ==
    LET atoms == Split(u, ".")
    IN  \A i \in 1..Len(atoms) : atoms[i] # <<>> /\ AllIn(atoms[i], UserChars)

LabelOk(l) ==
    /\ l # <<>>
    /\ AllIn(l, DomainChars)
    /\ l[1] \in AlphaNum
    /\ l[Len(l)] \in AlphaNum

DomainPartOk(d) ==
    \/ d = <<"l", "o", "c", "a", "l", "h", "o", "s", "t">>
    \/ LET labels == Split(d, ".")
           n == Len(labels)
       IN  /\ n >= 2
           /\ \A i \in 1..(n - 1) : LabelOk(labels[i])
           /\ Len(labels[n]) >= 2
           /\ AllIn(labels[n], DomainChars)

validate_Email(s) ==
    /\ s # <<>>
    /\ Contains(s, "@")
    /\ LET i == LastIndex(s, "@")
       IN  /\ UserPartOk(SubSeq(s, 1, i - 1))
           /\ DomainPartOk(SubSeq(s, i + 1, Len(s)))

(***************************************************************************)
(* Field declarations of CustomerSchema.                                   *)
(***************************************************************************)
DeclaredFields ==
    {"first_name", "last_name", "email", "password", "phone", "address",
     "id", "created_at", "service_tickets"}

Required == {"first_name", "last_name", "email", "password"}

\* faulty variant: password declared without load_only
LoadOnlyNothing == {}

LoadOnly == {"password"}

DumpOnly == {"id", "created_at", "service_tickets"}

\* marshmallow field deserialization of one present value: the null check,
\* the type check of fields.Str, then the field's validators
first_name_error(v) ==
    IF v = None THEN "null"
    ELSE IF ~isinstance_str(v) THEN "invalid"
    ELSE IF Len(v.chars) < FirstNameMin \/ Len(v.chars) > FirstNameMax THEN "length"
    ELSE "ok"

last_name_error(v) ==
    IF v = None THEN "null"
    ELSE IF ~isinstance_str(v) THEN "invalid"
    ELSE IF Len(v.chars) < LastNameMin \/ Len(v.chars) > LastNameMax THEN "length"
    ELSE "ok"

email_error(v) ==
    IF v = None THEN "null"
    ELSE IF ~isinstance_str(v) THEN "invalid"
    ELSE IF ~validate_Email(v.chars) THEN "email"
    ELSE "ok"

password_error(v) ==
    IF v = None THEN "null"
    ELSE IF ~isinstance_str(v) THEN "invalid"
    ELSE IF Len(v.chars) < PasswordMin THEN "length"
    ELSE "ok"

phone_error(v) ==
    IF v = None THEN "null"
    ELSE IF ~isinstance_str(v) THEN "invalid"
    ELSE IF Len(v.chars) > PhoneMax THEN "length"
    ELSE "ok"

address_error(v) ==
    IF v = None THEN "null"
    ELSE IF ~isinstance_str(v) THEN "invalid"
    ELSE IF Len(v.chars) > AddressMax THEN "length"
    ELSE "ok"

CustomerFieldError(k, v) ==
    CASE k = "first_name" -> first_name_error(v)
      [] k = "last_name" -> last_name_error(v)
      [] k = "email" -> email_error(v)
      [] k = "password" -> password_error(v)
      [] k = "phone" -> phone_error(v)
      [] k = "address" -> address_error(v)

(***************************************************************************)
(* Field declarations of LoginSchema.                                      *)
(***************************************************************************)
LoginFields == {"email", "password"}

\* faulty variant: no minimum length on the login password
login_password_error_no_min(v) ==
    IF v = None THEN "null"
    ELSE IF ~isinstance_str(v) THEN "invalid"
    ELSE "ok"

login_password_error(v) ==
    IF v = None THEN "null"
    ELSE IF ~isinstance_str(v) THEN "invalid"
    ELSE IF Len(v.chars) < LoginPasswordMin THEN "length"
    ELSE "ok"

LoginFieldError(k, v) ==
    CASE k = "email" -> email_error(v)
      [] k = "password" -> login_password_error(v)

(***************************************************************************)
(* Schema instances: the Schema class they instantiate and their many and  *)
(* exclude options.                                                        *)
(***************************************************************************)
customer_schema == [cls |-> "CustomerSchema", many |-> FALSE, exclude |-> {}]
customers_schema == [cls |-> "CustomerSchema", many |-> TRUE, exclude |-> {}]

\* faulty variant: the simple schema excludes the password only
customer_simple_schema_with_tickets ==
    [cls |-> "CustomerSchema", many |-> FALSE, exclude |-> {"password"}]

customer_simple_schema ==
    [cls |-> "CustomerSchema", many |-> FALSE, exclude |-> {"service_tickets", "password"}]
customers_simple_schema ==
    [cls |-> "CustomerSchema", many |-> TRUE, exclude |-> {"service_tickets", "password"}]
login_schema == [cls |-> "LoginSchema", many |-> FALSE, exclude |-> {}]

\* the fields a schema instance reads on load and writes on dump
LoadFields(sch) ==
    IF sch.cls = "LoginSchema" THEN LoginFields
    ELSE (DeclaredFields \ DumpOnly) \ sch.exclude

RequiredFields(sch) ==
    IF sch.cls = "LoginSchema" THEN LoginFields
    ELSE Required \ sch.exclude

DumpFields(sch) ==
    IF sch.cls = "LoginSchema" THEN LoginFields
    ELSE (DeclaredFields \ LoadOnly) \ sch.exclude

FieldError(sch, k, v) ==
    IF sch.cls = "LoginSchema" THEN LoginFieldError(k, v) ELSE CustomerFieldError(k, v)

(***************************************************************************)
(* Schema._deserialize: every load field is looked at, every error is      *)
(* collected under its field name, and a key that is no load field is an   *)
(* "unknown" error (Meta.unknown is not set, so it is RAISE).              *)
(***************************************************************************)
\* faulty variant: validation stops reporting after the first failing field
deserialize_errors_first_only(sch, d) ==
    LET bad == {k \in LoadFields(sch) \cup DOMAIN d :
                    IF k \notin DOMAIN d THEN k \in RequiredFields(sch)
                    ELSE IF k \notin LoadFields(sch) THEN TRUE
                    ELSE FieldError(sch, k, d[k]) # "ok"}
        one == IF bad = {} THEN {} ELSE {CHOOSE k \in bad : TRUE}
    IN  [k \in one |-> "error"]

deserialize_errors(sch, d) ==
    LET missing == {k \in RequiredFields(sch) : k \notin DOMAIN d}
        invalid == {k \in LoadFields(sch) \cap DOMAIN d : FieldError(sch, k, d[k]) # "ok"}
        unknown == DOMAIN d \ LoadFields(sch)
    IN  [k \in missing \cup invalid \cup unknown |->
            IF k \in missing THEN "required"
            ELSE IF k \in unknown THEN "unknown"
            ELSE FieldError(sch, k, d[k])]

\* the dict of deserialized values (a new dict, not the one passed in)
deserialize_result(sch, d) == [k \in LoadFields(sch) \cap DOMAIN d |-> d[k]]

(***************************************************************************)
(* bcrypt.  gensalt() returns one of NumSalts salts; hashpw(pw, salt) is   *)
(* the marker "$2b$12$", the salt, and a digest of the password and the    *)
(* salt (salt and digest shortened to one character each).                 *)
(***************************************************************************)
Alphabet ==
    <<" ", "\t", "\n", "@", ".", "-", "$", "_", "+",
      "0", "1", "2", "3", "4", "5", "6", "7", "8", "9",
      "a", "b", "c", "d", "e", "f", "i", "l", "m", "n", "o", "A", "L">>

Code(c) == CHOOSE i \in 1..Len(Alphabet) : Alphabet[i] = c

B64 == <<"A", "L", "a", "b", "c", "d", "e", "f">>

Salts == {B64[i] : i \in 1..NumSalts}

RECURSIVE CodeSum(_)
CodeSum(s) == IF s = <<>> THEN 0 ELSE Code(Head(s)) + CodeSum(Tail(s))

Digest(pw, salt) == B64[((CodeSum(pw) + Code(salt)) % Len(B64)) + 1]

hashpw(pw, salt) == <<"$", "2", "b", "$", "1", "2", "$">> \o <<salt, Digest(pw, salt)>>

(***************************************************************************)
(* post_load hook hash_password and its helper _hash.                      *)
(***************************************************************************)
\* faulty variant: no guard against a value that already looks hashed
_hash_no_guard(raw_pw, salt) ==
    IF ~truthy(raw_pw) THEN raw_pw ELSE Str(hashpw(raw_pw.chars, salt))

_hash(raw_pw, salt) ==
    IF ~truthy(raw_pw) THEN raw_pw
    ELSE IF isinstance_str(raw_pw) /\ startswith(raw_pw.chars, <<"$", "2">>) THEN raw_pw
    ELSE Str(hashpw(raw_pw.chars, salt))

\* d is the hook's argument: [type |-> "dict" or "Customer", attrs |-> its
\* items or attributes]
hash_password(d, salt) ==
    IF d.type # "dict"
    THEN IF "password" \in DOMAIN d.attrs /\ truthy(d.attrs["password"])
         THEN [d EXCEPT !.attrs["password"] = _hash(@, salt)]
         ELSE d
    ELSE IF "password" \in DOMAIN d.attrs /\ truthy(d.attrs["password"])
         THEN [d EXCEPT !.attrs["password"] = _hash(@, salt)]
         ELSE d

(***************************************************************************)
(* post_load hook make_instance (Meta.load_instance = True): the model     *)
(* object built from the deserialized dict; a column not given is None.    *)
(***************************************************************************)
CustomerColumns ==
    {"id", "first_name", "last_name", "email", "password", "phone", "address",
     "created_at"}

make_instance(d) ==
    [type |-> "Customer",
     attrs |-> [k \in CustomerColumns \cup {"service_tickets"} |->
                  IF k \in DOMAIN d.attrs THEN d.attrs[k]
                  ELSE IF k = "service_tickets" THEN <<>>
                  ELSE None]]

PostLoadHooks(sch) ==
    IF sch.cls = "CustomerSchema" THEN {"hash_password", "make_instance"} ELSE {}

(***************************************************************************)
(* Dump.                                                                   *)
(***************************************************************************)
TicketFields == {"id", "description", "customer"}

\* ServiceTicketSchema nested with exclude=('customer',)
dump_ticket(t) == [k \in TicketFields \ {"customer"} |-> t[k]]

isoformat(v) == IF v = None THEN None ELSE [kind |-> "str", iso |-> v.t]

serialize(k, v) ==
    CASE k = "service_tickets" -> [i \in 1..Len(v) |-> dump_ticket(v[i])]
      [] k = "created_at" -> isoformat(v)
      [] OTHER -> v

dump_one(sch, rec) == [k \in DumpFields(sch) |-> serialize(k, rec[k])]

dump(sch, obj) ==
    IF sch.many THEN [i \in 1..Len(obj) |-> dump_one(sch, obj[i])]
    ELSE dump_one(sch, obj)

SchemaInstance(name) ==
    CASE name = "customer_schema" -> customer_schema
      [] name = "customers_schema" -> customers_schema
      [] name = "customer_simple_schema" -> customer_simple_schema
      [] name = "customers_simple_schema" -> customers_simple_schema
      [] name = "login_schema" -> login_schema

DumpInstances ==
    {"customer_schema", "customers_schema", "customer_simple_schema",
     "customers_simple_schema"}

(***************************************************************************)
(* Request bodies handed to load.                                          *)
(***************************************************************************)
Absent == [kind |-> "absent"]

Pad(n) == Rep(" ", n)

Padded(core) == {Pad(n) \o core \o Pad(n) : n \in 0..MaxPad}

FirstNameInputs ==
    {Absent, Num(42)} \cup
    {Str(s) : s \in Padded(<<>>) \cup Padded(<<"A", "n", "n">>)
                    \cup Padded(Rep("a", FirstNameMax))
                    \cup {Rep("a", FirstNameMax + 1), <<"\t", "A", " ", "n", "\n">>}}

LastNameInputs == {Absent, None, Str(<<"L", "e", "e">>), Str(Rep("e", LastNameMax + 1))}

EmailInputs ==
    {Absent} \cup
    {Str(s) : s \in Padded(<<"a", "@", "b", ".", "c", "o", "m">>)
                    \cup {<<"b", "a", "d", "-", "e", "m", "a", "i", "l">>,
                          <<"a", "@", "b">>}}

PasswordInputs ==
    {Absent, Str(<<"1", "2", "3">>), Str(<<"$", "2", "a", "b", "c", "d">>)} \cup
    {Str(s) : s \in Padded(<<"a", "b", "c", "d">>)
                    \cup Padded(<<"a", "b", "c", "d", "e", "f">>)}

PhoneInputs ==
    {Absent, Str(Pad(MaxPad) \o Rep("5", PhoneMax) \o Pad(MaxPad)),
     Str(Rep("5", PhoneMax + 1))}

AddressInputs ==
    {Absent, Str(Pad(MaxPad) \o Rep("a", AddressMax) \o Pad(MaxPad)),
     Str(Rep("a", AddressMax + 1))}

\* a key that is no load field of CustomerSchema
IdInputs == {Absent, Num(7)}

\* a key that is no field of LoginSchema
LoginExtraInputs == {Absent, Str(<<"A", "n", "n">>)}

MkDict(c) == [k \in {x \in DOMAIN c : c[x] # Absent} |-> c[k]]

CustomerInputs ==
    {MkDict([first_name |-> fn, last_name |-> ln, email |-> em, password |-> pw,
             phone |-> ph, address |-> ad, id |-> ex]) :
        fn \in FirstNameInputs, ln \in LastNameInputs, em \in EmailInputs,
        pw \in PasswordInputs, ph \in PhoneInputs, ad \in AddressInputs,
        ex \in IdInputs}

LoginInputs ==
    {MkDict([email |-> em, password |-> pw, first_name |-> ex]) :
        em \in EmailInputs, pw \in PasswordInputs, ex \in LoginExtraInputs}

\* what the persistence layer attaches to a stored customer
Ticket(i, cid) ==
    [id |-> Num(i), description |-> Str(<<"o", "i", "l">>), customer |-> Num(cid)]

TicketLists == {[i \in 1..n |-> Ticket(i, 1)] : n \in 0..MaxTickets}

(***************************************************************************)
(* State.                                                                  *)
(*   pc        position in the request: idle, pre_load, deserialize,       *)
(*             post_load, returned, raised, rehashed, stored               *)
(*   schema    the schema instance load was called on                      *)
(*   request   the dict object the caller passed to load                   *)
(*   sent      the items of that dict at the call (history)                *)
(*   data      the value handed from step to step after deserialization    *)
(*   errors    the messages of the ValidationError raised, by field        *)
(*   hooks_run the post_load hooks run so far, in order                    *)
(*   out       the dump outputs produced, by schema instance name          *)
(***************************************************************************)
NoData == [type |-> "none", attrs |-> EmptyDict]

Init ==
    /\ pc = "idle"
    /\ schema = customer_schema
    /\ request = EmptyDict
    /\ sent = EmptyDict
    /\ data = NoData
    /\ errors = EmptyDict
    /\ hooks_run = <<>>
    /\ out = EmptyDict

Range(s) == {s[i] : i \in 1..Len(s)}

\* customer_schema.load(input) is called
LoadCustomer ==
    /\ pc = "idle"
    /\ \E input \in CustomerInputs :
        /\ request' = input
        /\ sent' = input
    /\ schema' = customer_schema
    /\ pc' = "pre_load"
    /\ UNCHANGED <<data, errors, hooks_run, out>>

\* login_schema.load(input) is called; LoginSchema has no pre_load hook
LoadLogin ==
    /\ pc = "idle"
    /\ \E input \in LoginInputs :
        /\ request' = input
        /\ sent' = input
    /\ schema' = login_schema
    /\ pc' = "deserialize"
    /\ UNCHANGED <<data, errors, hooks_run, out>>

\* the pre_load hook: process_input assigns into the dict it was given
PreLoad ==
    /\ pc = "pre_load"
    /\ request' = process_input(request)
    /\ pc' = "deserialize"
    /\ UNCHANGED <<schema, sent, data, errors, hooks_run, out>>

\* faulty variant: the post_load hooks run although validation found errors
Deserialize_hooks_despite_errors ==
    /\ pc = "deserialize"
    /\ errors' = deserialize_errors(schema, request)
    /\ data' = [type |-> "dict", attrs |-> deserialize_result(schema, request)]
    /\ pc' = IF PostLoadHooks(schema) = {} THEN "returned" ELSE "post_load"
    /\ UNCHANGED <<schema, request, sent, hooks_run, out>>

\* field deserialization and validation; any error raises ValidationError
\* and no post_load hook runs
Deserialize ==
    /\ pc = "deserialize"
    /\ LET errs == deserialize_errors(schema, request)
       IN  IF DOMAIN errs # {}
           THEN /\ errors' = errs
                /\ pc' = "raised"
                /\ UNCHANGED data
           ELSE /\ data' = [type |-> "dict", attrs |-> deserialize_result(schema, request)]
                /\ pc' = IF PostLoadHooks(schema) = {} THEN "returned" ELSE "post_load"
                /\ UNCHANGED errors
    /\ UNCHANGED <<schema, request, sent, hooks_run, out>>

\* the two post_load hooks run in either order: hash_password is written
\* for both ("data may be either a dict or a model instance")
HashPasswordHook ==
    /\ pc = "post_load"
    /\ "hash_password" \in PostLoadHooks(schema) \ Range(hooks_run)
    /\ \E salt \in Salts : data' = hash_password(data, salt)
    /\ hooks_run' = Append(hooks_run, "hash_password")
    /\ UNCHANGED <<pc, schema, request, sent, errors, out>>

MakeInstanceHook ==
    /\ pc = "post_load"
    /\ "make_instance" \in PostLoadHooks(schema) \ Range(hooks_run)
    /\ data' = make_instance(data)
    /\ hooks_run' = Append(hooks_run, "make_instance")
    /\ UNCHANGED <<pc, schema, request, sent, errors, out>>

Return ==
    /\ pc = "post_load"
    /\ Range(hooks_run) = PostLoadHooks(schema)
    /\ pc' = "returned"
    /\ UNCHANGED <<schema, request, sent, data, errors, hooks_run, out>>

\* the hashing step applied once more to a loaded customer
HashAgain ==
    /\ pc = "returned"
    /\ schema.cls = "CustomerSchema"
    /\ \E salt \in Salts : data' = hash_password(data, salt)
    /\ pc' = "rehashed"
    /\ UNCHANGED <<schema, request, sent, errors, hooks_run, out>>

\* the caller commits the loaded customer: storage assigns id and
\* created_at and the customer's tickets become reachable from it
Persist ==
    /\ pc = "returned"
    /\ schema.cls = "CustomerSchema"
    /\ \E tickets \in TicketLists :
        data' = [data EXCEPT !.attrs["id"] = Num(1),
                             !.attrs["created_at"] = DateTime(1),
                             !.attrs["service_tickets"] = tickets]
    /\ pc' = "stored"
    /\ UNCHANGED <<schema, request, sent, errors, hooks_run, out>>

\* one of the four CustomerSchema instances dumps the stored customer (a
\* many=True instance dumps a list holding it twice)
Dump ==
    /\ pc = "stored"
    /\ \E name \in DumpInstances \ DOMAIN out :
        LET sch == SchemaInstance(name)
            obj == IF sch.many THEN <<data.attrs, data.attrs>> ELSE data.attrs
        IN  out' = [n \in DOMAIN out \cup {name} |->
                      IF n = name THEN dump(sch, obj) ELSE out[n]]
    /\ UNCHANGED <<pc, schema, request, sent, data, errors, hooks_run>>

Next ==
    \/ LoadCustomer
    \/ LoadLogin
    \/ PreLoad
    \/ Deserialize
    \/ HashPasswordHook
    \/ MakeInstanceHook
    \/ Return
    \/ HashAgain
    \/ Persist
    \/ Dump

Spec == Init /\ [][Next]_vars

(***************************************************************************)
(* Properties.                                                             *)
(***************************************************************************)
IsCustomerLoad == schema.cls = "CustomerSchema"
IsLogin == schema.cls = "LoginSchema"
Loaded == pc \in {"returned", "rehashed", "stored"}
Validated == pc \in {"post_load", "returned", "rehashed", "stored", "raised"}

\* t is s without its leading and trailing whitespace
IsTrimOf(t, s) ==
    /\ t = <<>> \/ (~IsSpace(t[1]) /\ ~IsSpace(t[Len(t)]))
    /\ Len(t) <= Len(s)
    /\ \E i \in 0..(Len(s) - Len(t)) :
        /\ SubSeq(s, i + 1, i + Len(t)) = t
        /\ \A j \in 1..i : IsSpace(s[j])
        /\ \A j \in (i + Len(t) + 1)..Len(s) : IsSpace(s[j])

\* C1: the record a successful customer load returns has a password that is
\* a bcrypt hash of the raw password supplied and is never that raw password
C1_PasswordNeverRaw ==
    (IsCustomerLoad /\ pc = "returned") =>
        /\ data.attrs["password"] # sent["password"]
        /\ \E salt \in Salts : data.attrs["password"] = Str(hashpw(sent["password"].chars, salt))

\* C2: applying the hashing step to a record whose password went through it
\* already leaves the record as it was
C2_HashIdempotent == [][(pc = "returned" /\ pc' = "rehashed") => data' = data]_vars

C2_Witness ==
    /\ pc = "rehashed"
    /\ data.attrs["password"] # sent["password"]
    /\ startswith(data.attrs["password"].chars, <<"$", "2">>)

\* C3: no dump output of any of the four schema instances has a password key
C3_NoPasswordInDump ==
    \A n \in DOMAIN out :
        IF SchemaInstance(n).many
        THEN \A i \in 1..Len(out[n]) : "password" \notin DOMAIN out[n][i]
        ELSE "password" \notin DOMAIN out[n]

C3_Witness ==
    /\ pc = "stored"
    /\ DOMAIN out = DumpInstances
    /\ truthy(data.attrs["password"])
    /\ Len(out["customers_schema"]) = 2

C4_PlainKeys == {"id", "first_name", "last_name", "email", "phone", "address", "created_at"}

C4_FullAndSimple(full, simple, rec) ==
    /\ DOMAIN full = C4_PlainKeys \cup {"service_tickets"}
    /\ DOMAIN simple = C4_PlainKeys
    /\ \A k \in C4_PlainKeys : full[k] = simple[k]
    /\ \A k \in C4_PlainKeys \ {"created_at"} : full[k] = rec[k]
    /\ Len(full["service_tickets"]) = Len(rec["service_tickets"])
    /\ \A i \in 1..Len(rec["service_tickets"]) :
        LET t == full["service_tickets"][i]
        IN  /\ "customer" \notin DOMAIN t
            /\ DOMAIN t = DOMAIN rec["service_tickets"][i] \ {"customer"}
            /\ \A k \in DOMAIN t : t[k] = rec["service_tickets"][i][k]

\* C4: the full dump has service_tickets, each ticket without its customer
\* key; the simple dump has not; on every other key the two agree
C4_FullVsSimple ==
    /\ {"customer_schema", "customer_simple_schema"} \subseteq DOMAIN out =>
          C4_FullAndSimple(out["customer_schema"], out["customer_simple_schema"], data.attrs)
    /\ {"customers_schema", "customers_simple_schema"} \subseteq DOMAIN out =>
          /\ Len(out["customers_schema"]) = Len(out["customers_simple_schema"])
          /\ \A i \in 1..Len(out["customers_schema"]) :
                C4_FullAndSimple(out["customers_schema"][i],
                                 out["customers_simple_schema"][i], data.attrs)
    /\ "customer_schema" \in DOMAIN out => "service_tickets" \in DOMAIN out["customer_schema"]
    /\ "customer_simple_schema" \in DOMAIN out =>
          "service_tickets" \notin DOMAIN out["customer_simple_schema"]

C4_Witness ==
    /\ DOMAIN out = DumpInstances
    /\ Len(data.attrs["service_tickets"]) >= 1
    /\ data.attrs["phone"] # None

C5_AcceptedKeys == {"first_name", "last_name", "email", "password", "phone", "address"}

\* the constraints of the data model, read on the request as it was sent
C5_Violates(k, d) ==
    IF k \notin DOMAIN d THEN k \in {"first_name", "last_name", "email", "password"}
    ELSE IF k \notin C5_AcceptedKeys THEN TRUE
    ELSE IF ~isinstance_str(d[k]) THEN TRUE
    ELSE CASE k = "first_name" -> Len(strip(d[k].chars)) \notin FirstNameMin..FirstNameMax
           [] k = "last_name" -> Len(strip(d[k].chars)) \notin LastNameMin..LastNameMax
           [] k = "email" -> ~validate_Email(strip(d[k].chars))
           [] k = "password" -> Len(d[k].chars) < PasswordMin
           [] k = "phone" -> Len(strip(d[k].chars)) > PhoneMax
           [] k = "address" -> Len(strip(d[k].chars)) > AddressMax

C5_Violations(d) == {k \in C5_AcceptedKeys \cup DOMAIN d : C5_Violates(k, d)}

\* C5: a customer load fails exactly when some field violates a constraint,
\* and the error then names exactly the violating fields
C5_ErrorsNameViolations ==
    (IsCustomerLoad /\ Validated) =>
        /\ pc = "raised" <=> C5_Violations(sent) # {}
        /\ DOMAIN errors = C5_Violations(sent)

C5_Witness ==
    /\ IsCustomerLoad
    /\ pc = "raised"
    /\ DOMAIN sent = {"email", "password"}
    /\ DOMAIN errors = {"first_name", "last_name", "email", "password"}
    /\ errors["email"] = "email"
    /\ errors["password"] = "length"

C6_WhitespaceOnly(v) == isinstance_str(v) /\ v.chars # <<>> /\ AllIn(v.chars, {" ", "\t", "\n"})

C6_LongOnlyByPadding(v, min, max) ==
    /\ isinstance_str(v)
    /\ Len(v.chars) > max
    /\ Len(strip(v.chars)) \in min..max

\* C6: a whitespace-only name is rejected as too short, a name, phone or
\* address too long only by its surrounding whitespace is accepted, and a
\* password is accepted exactly when its untrimmed length is at least 6
C6_TrimBeforeValidate ==
    (IsCustomerLoad /\ Validated) =>
        /\ \A k \in {"first_name", "last_name"} \cap DOMAIN sent :
              C6_WhitespaceOnly(sent[k]) =>
                  pc = "raised" /\ k \in DOMAIN errors /\ errors[k] = "length"
        /\ "first_name" \in DOMAIN sent /\ C6_LongOnlyByPadding(sent["first_name"], 1, 50)
              => "first_name" \notin DOMAIN errors
        /\ "last_name" \in DOMAIN sent /\ C6_LongOnlyByPadding(sent["last_name"], 1, 50)
              => "last_name" \notin DOMAIN errors
        /\ "phone" \in DOMAIN sent /\ C6_LongOnlyByPadding(sent["phone"], 0, 20)
              => "phone" \notin DOMAIN errors
        /\ "address" \in DOMAIN sent /\ C6_LongOnlyByPadding(sent["address"], 0, 200)
              => "address" \notin DOMAIN errors
        /\ "password" \in DOMAIN sent /\ isinstance_str(sent["password"]) =>
              ("password" \notin DOMAIN errors <=> Len(sent["password"].chars) >= 6)

C6_Witness ==
    /\ IsCustomerLoad
    /\ pc = "returned"
    /\ Len(sent["password"].chars) >= 6
    /\ Len(strip(sent["password"].chars)) < 6
    /\ "phone" \in DOMAIN sent
    /\ Len(sent["phone"].chars) > 20
    /\ Len(sent["first_name"].chars) > 50

\* C7: after the normalize step every string entry but the password is the
\* trimmed form of what was sent and every other entry is what was sent; a
\* loaded record holds the trimmed fields and the hash of the untrimmed
\* password
C7_Normalize ==
    /\ (IsCustomerLoad /\ pc = "deserialize") =>
          /\ DOMAIN request = DOMAIN sent
          /\ \A k \in DOMAIN sent :
                IF isinstance_str(sent[k]) /\ k # "password"
                THEN isinstance_str(request[k]) /\ IsTrimOf(request[k].chars, sent[k].chars)
                ELSE request[k] = sent[k]
    /\ (IsCustomerLoad /\ pc = "returned") =>
          /\ \A k \in {"first_name", "last_name", "email", "phone", "address"} \cap DOMAIN sent :
                IsTrimOf(data.attrs[k].chars, sent[k].chars)
          /\ \/ data.attrs["password"] = sent["password"]
                   /\ startswith(sent["password"].chars, <<"$", "2">>)
             \/ \E salt \in Salts :
                   data.attrs["password"] = Str(hashpw(sent["password"].chars, salt))

C7_Witness ==
    /\ IsCustomerLoad
    /\ pc = "returned"
    /\ sent["first_name"] = Str(<<"\t", "A", " ", "n", "\n">>)
    /\ data.attrs["first_name"] = Str(<<"A", " ", "n">>)
    /\ IsSpace(sent["password"].chars[1])
    /\ "phone" \in DOMAIN sent

\* C8: the login validator accepts exactly the mappings with the keys email
\* and password, a valid email and a password of 6 or more characters, and
\* what it returns is what was sent, untrimmed and unhashed
C8_Login ==
    (IsLogin /\ pc \in {"returned", "raised"}) =>
        /\ pc = "returned" <=>
              /\ DOMAIN sent = {"email", "password"}
              /\ isinstance_str(sent["email"]) /\ validate_Email(sent["email"].chars)
              /\ isinstance_str(sent["password"]) /\ Len(sent["password"].chars) >= 6
        /\ pc = "returned" => data.attrs = sent /\ request = sent /\ hooks_run = <<>>

C8_Witness ==
    /\ IsLogin
    /\ pc = "returned"
    /\ sent["password"] = Str(<<" ", "a", "b", "c", "d", " ">>)
    /\ data.attrs["password"] = sent["password"]

\* C9: the mapping the caller passed to load holds after load what it held
\* before, whether load returned or raised
C9_InputUnchanged == (IsCustomerLoad /\ pc \in {"returned", "raised"}) => request = sent

\* C10 as stated: the hash step runs only on the materialized record, after
\* make_instance
C10_MaterializeThenHash ==
    hooks_run \in {<<>>, <<"make_instance">>, <<"make_instance", "hash_password">>}

\* C10: before validation has succeeded no hook has run; a load that raises
\* has materialized nothing and hashed nothing; a load that returns a record
\* ran the materialize step and the hash step exactly once each
C10_HashAfterValidation ==
    IsCustomerLoad =>
        /\ pc \in {"idle", "pre_load", "deserialize", "raised"} =>
              hooks_run = <<>> /\ data = NoData
        /\ hooks_run # <<>> => DOMAIN errors = {} /\ C5_Violations(sent) = {}
        /\ Loaded =>
              /\ hooks_run \in {<<"make_instance", "hash_password">>,
                                <<"hash_password", "make_instance">>}
              /\ data.type = "Customer"

C10_Witness ==
    /\ IsCustomerLoad
    /\ pc = "returned"
    /\ hooks_run = <<"hash_password", "make_instance">>
    /\ data.attrs["password"] # sent["password"]

====
